---- MODULE Spec2Model ----
(***************************************************************************)
(* Model of backtrader/plot/plot.py: the calls of Plot.plot(strategy).    *)
(* The strategy (data feeds, observers, indicators) and the plot scheme    *)
(* are the inputs, chosen in Init.  The run is the sequence of steps of    *)
(* Plot.plot: PInfo construction, sortdataindicators, calcrows, one        *)
(* plotind per top/above/below entry, plotdata per data feed, and the      *)
(* final x axis formatting.  The matplotlib figure is modelled by what the *)
(* code asks of it: the axes created, the artists drawn on them, the tags, *)
(* the legends and the visibility of the x tick labels.                    *)
(***************************************************************************)
EXTENDS Integers, Sequences, FiniteSets, TLC

\* ------------------------------------------------------------------------
\* Bounds of the model
\* ------------------------------------------------------------------------
MaxDatas == 2
MaxObjs == 2
MaxRowsMajor == 2
MaxRowsMinor == 2
MaxLines == 2
MaxRuns == 2

\* ------------------------------------------------------------------------
\* Identities
\* ------------------------------------------------------------------------
None == 0

Data(i) == <<"data", i>>
Volume(i) == <<"volume", i>>
Obj(i) == <<"obj", i>>
Stub(i) == <<"stub", i>>

\* strings as character sequences, so that str.startswith is computed
StyleLine == <<"l", "i", "n", "e">>
StyleCandle == <<"c", "a", "n", "d", "l", "e">>
StyleBar == <<"b", "a", "r">>
StyleArea == <<"a", "r", "e", "a">>
StyleCandlestick == StyleCandle \o <<"s", "t", "i", "c", "k">>
Styles == {StyleLine, StyleCandle, StyleBar, StyleArea, StyleCandlestick}

startswith(s, p) == Len(s) >= Len(p) /\ SubSeq(s, 1, Len(p)) = p

\* ------------------------------------------------------------------------
\* Inputs: lines, plottable objects, strategy, scheme
\* ------------------------------------------------------------------------
\* a line of an indicator/observer with its plotlines entry:
\*   plotskip  : _plotskip
\*   color     : the line kwargs pin a color
\*   samecolor : _samecolor
\*   lplot     : the values plotted, the last one at the right edge
\*   haszorder/zorder : the line kwargs pin a zorder
\*   method    : _method, "plot" (a Line2D) or "bar" (a bar container)
\* the values of a line: NaN or a number
NaN == -1
\* a test that takes every value for a number
isnanNever(x) == FALSE
isnan(x) == x = NaN
Last(s) == s[Len(s)]

PlainLine ==
    [plotskip |-> FALSE, color |-> FALSE, samecolor |-> FALSE, lplot |-> <<1, 2>>,
     haszorder |-> FALSE, zorder |-> 0, method |-> "plot"]

DirectClock(k) == [id |-> k, hasowner |-> FALSE, owner |-> k]
StubClock(i, k) == [id |-> Stub(i), hasowner |-> TRUE, owner |-> k]

MkObj(kind, hasinfo, plot, skip, subplot, above, clock, linelabels, lines) ==
    [kind |-> kind, hasplotinfo |-> hasinfo, plot |-> plot, plotskip |-> skip,
     subplot |-> subplot, plotabove |-> above, clock |-> clock,
     plotlinelabels |-> linelabels, plotlegend |-> TRUE, lines |-> lines]

\* The clocks object number i can have: a data feed, an object created
\* before it, or a stub whose owner back-reference points to a data feed
Clocks(i, nd) ==
    {DirectClock(Data(d)) : d \in 1..nd}
      \cup {DirectClock(Obj(j)) : j \in 1..(i - 1)}
      \cup {StubClock(i, Data(d)) : d \in 1..nd}

\* Objects that are not placed (fields the code never reads are fixed)
HiddenShapes(i, nd, lines) ==
    {MkObj(k, TRUE, FALSE, FALSE, FALSE, FALSE, DirectClock(Data(1)), FALSE, lines) :
        k \in {"obs", "ind"}}
      \cup {MkObj(k, TRUE, TRUE, TRUE, FALSE, FALSE, DirectClock(Data(1)), FALSE, lines) :
        k \in {"obs", "ind"}}
      \cup {MkObj("ind", FALSE, FALSE, FALSE, FALSE, FALSE, DirectClock(Data(1)), FALSE, lines)}

\* Objects that are placed
VisibleShapes(i, nd, lines) ==
    {MkObj("obs", TRUE, TRUE, FALSE, TRUE, FALSE, DirectClock(Data(1)), FALSE, lines)}
      \cup {MkObj("obs", TRUE, TRUE, FALSE, FALSE, FALSE, c, FALSE, lines) :
              c \in Clocks(i, nd)}
      \cup {MkObj("ind", TRUE, TRUE, FALSE, sp[1], sp[2], c, FALSE, lines) :
              sp \in {<<TRUE, TRUE>>, <<TRUE, FALSE>>, <<FALSE, FALSE>>},
              c \in Clocks(i, nd)}

ObjShapes(i, nd) ==
    HiddenShapes(i, nd, <<PlainLine>>) \cup VisibleShapes(i, nd, <<PlainLine>>)

\* all object lists of length n: object number i is drawn from ObjShapes(i, nd)
RECURSIVE ObjSeqs(_, _)
ObjSeqs(n, nd) ==
    IF n = 0 THEN {<<>>}
    ELSE {Append(s, x) : s \in ObjSeqs(n - 1, nd), x \in ObjShapes(n, nd)}

MkScheme(rmaj, rmin, vol, over, zdown, style) ==
    [rowsmajor |-> rmaj, rowsminor |-> rmin, volume |-> vol,
     voloverlay |-> over, zdown |-> zdown, style |-> style, legendind |-> TRUE]

VolumeModes == {<<FALSE, FALSE>>, <<TRUE, FALSE>>, <<TRUE, TRUE>>}

\* ------------------------------------------------------------------------
\* State
\* ------------------------------------------------------------------------
VARIABLES
    strategy,    \* [datas, objs]: the data feeds and the observers/indicators
    sch,         \* the plot scheme (self.p.scheme)
    pc,          \* position of plot(): start, sort, calcrows, top, up, price,
                 \* volume, over, down, final, done, returned, aborted
    di,          \* index of the data feed of the per data loop
    ii,          \* index in the list the current loop iterates
    dplotstop,   \* self.dplotstop
    dplotsup,    \* self.dplotsup
    dplotsdown,  \* self.dplotsdown
    dplotsover,  \* self.dplotsover
    pinf,        \* self.pinf
    fig,         \* the matplotlib figure: axes, artists, tags
    run,         \* the number of the call of plot() on this Plot object
    prev         \* what the call before this one left behind

vars == <<strategy, sch, pc, di, ii, dplotstop, dplotsup, dplotsdown,
          dplotsover, pinf, fig, run, prev>>

NumDatas == Len(strategy.datas)
NumObjs == Len(strategy.objs)
TheObj(x) == strategy.objs[x[2]]

\* every object that can be a key of the placement dictionaries
Keys == {Data(d) : d \in 1..NumDatas} \cup {Obj(j) : j \in 1..NumObjs}

RECURSIVE SelectKind(_, _, _)
SelectKind(objs, i, kind) ==
    IF i > Len(objs) THEN <<>>
    ELSE (IF objs[i].kind = kind THEN <<Obj(i)>> ELSE <<>>)
           \o SelectKind(objs, i + 1, kind)

getobservers == SelectKind(strategy.objs, 1, "obs")
getindicators == SelectKind(strategy.objs, 1, "ind")

\* ------------------------------------------------------------------------
\* PInfo
\* ------------------------------------------------------------------------
EmptyDict == [k \in {} |-> 0]

PInfo ==
    [nrows |-> 0, row |-> 0, sharex |-> None, daxis |-> <<>>,
     zorder |-> EmptyDict, coloridx |-> EmptyDict]

NoFig == [axes |-> <<>>, artists |-> <<>>, tags |-> <<>>]

\* d[k] = v of a dict
DictSet(d, k, v) == [x \in DOMAIN d \cup {k} |-> IF x = k THEN v ELSE d[x]]

\* an OrderedDict as a sequence of <<key, value>>: a new key goes last, a key
\* already present keeps its place
RECURSIVE OrderedSet(_, _, _)
OrderedSet(od, k, v) ==
    IF od = <<>> THEN <<(<<k, v>>)>>
    ELSE IF Head(od)[1] = k THEN <<(<<k, v>>)>> \o Tail(od)
    ELSE <<Head(od)>> \o OrderedSet(Tail(od), k, v)

OrderedGet(od, k) == (CHOOSE i \in 1..Len(od) : od[i][1] = k)

\* coloridx is a defaultdict(lambda: -1): reading a missing key stores -1
coloridxTouch(p, ax) ==
    IF ax \in DOMAIN p.coloridx THEN p
    ELSE [p EXCEPT !.coloridx = DictSet(@, ax, -1)]

\* a counter that skips every other color
nextcolorTwice(p, ax) ==
    LET q == coloridxTouch(p, ax)
    IN  [q EXCEPT !.coloridx = DictSet(@, ax, q.coloridx[ax] + 2)]

nextcolor(p, ax) ==
    LET q == coloridxTouch(p, ax)
    IN  [q EXCEPT !.coloridx = DictSet(@, ax, q.coloridx[ax] + 1)]

\* z-orders are base * 1.0001^up * 0.9999^down
ZVal(base) == [base |-> base, up |-> 0, down |-> 0]

zordernext(p, ax) ==
    LET z == p.zorder[ax]
    IN  IF sch.zdown THEN [z EXCEPT !.down = @ + 1]
        ELSE [z EXCEPT !.up = @ + 1]

\* |b| > |a| for two z-orders of the same non zero base
ZGrows(a, b) ==
    /\ b.up >= a.up
    /\ b.down <= a.down
    /\ <<a.up, a.down>> # <<b.up, b.down>>

\* a < b as numbers, for z-orders of the same base
ZLess(a, b) ==
    /\ a.base = b.base
    /\ \/ a.base > 0 /\ ZGrows(a, b)
       \/ a.base < 0 /\ ZGrows(b, a)

\* ------------------------------------------------------------------------
\* sortdataindicators
\* ------------------------------------------------------------------------
\* a key that ignores the owner back-reference of the clock
ClockKeyNoOwner(x) == x.clock.id

ClockKey(x) == IF x.clock.hasowner THEN x.clock.owner ELSE x.clock.id

EmptyGroups ==
    [top |-> <<>>, up |-> [k \in Keys |-> <<>>], down |-> [k \in Keys |-> <<>>],
     over |-> [k \in Keys |-> <<>>]]

\* lines 481-488: the body of the loop over the observers
PlaceObserver(g, id) ==
    LET x == TheObj(id)
    IN  IF ~x.plot \/ x.plotskip THEN g
        ELSE IF x.subplot THEN [g EXCEPT !.top = Append(@, id)]
        ELSE [g EXCEPT !.over[ClockKey(x)] = Append(@, id)]

\* a classifier that forgets the plotskip mark of an indicator
PlaceIndicatorNoSkip(g, id) ==
    LET x == TheObj(id)
        key == ClockKey(x)
    IN  IF ~x.hasplotinfo THEN g
        ELSE IF ~x.plot THEN g
        ELSE IF x.subplot
             THEN IF x.plotabove
                  THEN [g EXCEPT !.up[key] = Append(@, id)]
                  ELSE [g EXCEPT !.down[key] = Append(@, id)]
        ELSE [g EXCEPT !.over[key] = Append(@, id)]

\* lines 492-507: the body of the loop over the indicators
PlaceIndicator(g, id) ==
    LET x == TheObj(id)
        key == ClockKey(x)
    IN  IF ~x.hasplotinfo THEN g
        ELSE IF ~x.plot \/ x.plotskip THEN g
        ELSE IF x.subplot
             THEN IF x.plotabove
                  THEN [g EXCEPT !.up[key] = Append(@, id)]
                  ELSE [g EXCEPT !.down[key] = Append(@, id)]
        ELSE [g EXCEPT !.over[key] = Append(@, id)]

RECURSIVE SortObservers(_, _)
SortObservers(xs, g) ==
    IF xs = <<>> THEN g
    ELSE SortObservers(Tail(xs), PlaceObserver(g, Head(xs)))

RECURSIVE SortIndicators(_, _)
SortIndicators(xs, g) ==
    IF xs = <<>> THEN g
    ELSE SortIndicators(Tail(xs), PlaceIndicator(g, Head(xs)))

sortdataindicators ==
    SortIndicators(getindicators, SortObservers(getobservers, EmptyGroups))

\* ------------------------------------------------------------------------
\* calcrows
\* ------------------------------------------------------------------------
RECURSIVE SumLen(_, _)
SumLen(d, ks) ==
    IF ks = {} THEN 0
    ELSE LET k == CHOOSE x \in ks : TRUE
         IN  Len(d[k]) + SumLen(d, ks \ {k})

calcrows ==
    NumDatas * sch.rowsmajor
      + (IF sch.volume /\ ~sch.voloverlay THEN NumDatas * sch.rowsminor ELSE 0)
      + Len(dplotstop) * sch.rowsminor
      + SumLen(dplotsup, DOMAIN dplotsup)
      + SumLen(dplotsdown, DOMAIN dplotsdown)

\* ------------------------------------------------------------------------
\* newaxis
\* ------------------------------------------------------------------------
\* The operations below take and return a world w = [pinf, fig, err]: err is
\* set when a call raised, which ends plot()

World(p, f) == [pinf |-> p, fig |-> f, err |-> FALSE]

\* mpyplot.subplot2grid((nrows, 1), (row, 0), rowspan): the grid clamps the
\* row slice row:row+rowspan to the grid and raises IndexError when nothing
\* of it is left
subplot2gridRaises(nrows, row) == row >= nrows

NewAxId(f) == Len(f.axes) + 1

\* a newaxis that makes every new panel the shared-x anchor
newaxisLastAnchor(w, obj, rowspan) ==
    IF subplot2gridRaises(w.pinf.nrows, w.pinf.row) THEN [w EXCEPT !.err = TRUE]
    ELSE LET ax == NewAxId(w.fig)
             rec == [kind |-> "subplot", key |-> obj, row |-> w.pinf.row,
                     rowspan |-> rowspan, sharex |-> w.pinf.sharex,
                     host |-> None, xticklabels |-> TRUE, legend |-> <<>>]
         IN  [w EXCEPT
                !.fig.axes = Append(@, rec),
                !.pinf.sharex = ax,
                !.pinf.row = @ + rowspan,
                !.pinf.daxis = OrderedSet(@, obj, ax)]

newaxis(w, obj, rowspan) ==
    IF subplot2gridRaises(w.pinf.nrows, w.pinf.row) THEN [w EXCEPT !.err = TRUE]
    ELSE LET ax == NewAxId(w.fig)
             rec == [kind |-> "subplot", key |-> obj, row |-> w.pinf.row,
                     rowspan |-> rowspan, sharex |-> w.pinf.sharex,
                     host |-> None, xticklabels |-> TRUE, legend |-> <<>>]
         IN  [w EXCEPT
                !.fig.axes = Append(@, rec),
                !.pinf.sharex = IF @ = None THEN ax ELSE @,
                !.pinf.row = @ + rowspan,
                !.pinf.daxis = OrderedSet(@, obj, ax)]

\* the axis newaxis has just returned
LastAx(w) == Len(w.fig.axes)

\* ------------------------------------------------------------------------
\* drawing
\* ------------------------------------------------------------------------
\* default z-orders of matplotlib artists: lines 2, patches and collections 1
ZLine == 2
ZPatch == 1

DefaultZ(cls) == IF cls = "line" THEN ZLine ELSE ZPatch

\* the class of the artist an axes method draws
MethodClass(method) == IF method = "bar" THEN "container" ELSE "line"

Label(text, value) == [text |-> text, value |-> value]

\* matplotlib leaves labels starting with an underscore out of the legend
InLegend(label) == label.text[1] # "nolegend"

\* the tag of value y at the right edge of ax; reading pinf.zorder[ax] raises
\* KeyError when the axis has no z-order yet.  "after" is the number of
\* artists drawn before the tag
drawtag(w, ax, y, edge) ==
    IF ax \notin DOMAIN w.pinf.zorder
    THEN [w EXCEPT !.err = TRUE,
                   !.fig.tags = Append(@, [ax |-> ax, y |-> y, keyerror |-> TRUE,
                                           z |-> ZVal(0), plus |-> 3, edge |-> edge,
                                           after |-> Len(w.fig.artists)])]
    ELSE [w EXCEPT !.fig.tags =
            Append(@, [ax |-> ax, y |-> y, keyerror |-> FALSE,
                       z |-> w.pinf.zorder[ax], plus |-> 3, edge |-> edge,
                       after |-> Len(w.fig.artists)])]

\* an iteration that draws the tag before the line and its z-order record
plotlineTagFirst(w, ax, ind, lineidx, masterax) ==
    LET o == TheObj(ind)
        line == o.lines[lineidx]
        text == IF masterax # None /\ ~o.plotlinelabels
                THEN (IF lineidx = 1 THEN <<"ind", ind[2]>> ELSE <<"nolegend">>)
                ELSE <<"alias", ind[2], lineidx>>
        label == Label(text, ~isnan(Last(line.lplot)))
        shown == IF ~isnan(Last(line.lplot)) THEN Last(line.lplot) ELSE NaN
        p1 == IF line.color THEN w.pinf
              ELSE coloridxTouch(IF ~line.samecolor THEN nextcolor(w.pinf, ax)
                                 ELSE w.pinf, ax)
        color == IF line.color THEN [explicit |-> TRUE, idx |-> 0]
                 ELSE [explicit |-> FALSE, idx |-> p1.coloridx[ax]]
        cls == MethodClass(line.method)
        z == IF ax \in DOMAIN w.pinf.zorder THEN zordernext(w.pinf, ax)
             ELSE IF line.haszorder THEN ZVal(line.zorder)
             ELSE ZVal(DefaultZ(cls))
        artist == [ax |-> ax, by |-> "plotind", obj |-> ind, line |-> lineidx,
                   label |-> label, shown |-> shown, cls |-> cls,
                   color |-> color, z |-> z]
        w0 == [w EXCEPT !.pinf = coloridxTouch(p1, ax)]
        w1 == IF isnan(Last(line.lplot)) THEN w0
              ELSE drawtag(w0, ax, Last(line.lplot),
                           [explicit |-> FALSE, idx |-> w0.pinf.coloridx[ax]])
    IN  IF line.plotskip THEN w
        ELSE IF w1.err THEN w1
        ELSE [w1 EXCEPT !.pinf.zorder = DictSet(@, ax, z),
                        !.fig.artists = Append(@, artist)]

\* one iteration of the loop over the lines of plotind
plotline(w, ax, ind, lineidx, masterax) ==
    LET o == TheObj(ind)
        line == o.lines[lineidx]
        text == IF masterax # None /\ ~o.plotlinelabels
                THEN (IF lineidx = 1 THEN <<"ind", ind[2]>> ELSE <<"nolegend">>)
                ELSE <<"alias", ind[2], lineidx>>
        label == Label(text, ~isnan(Last(line.lplot)))
        shown == IF ~isnan(Last(line.lplot)) THEN Last(line.lplot) ELSE NaN
        p1 == IF line.color THEN w.pinf
              ELSE coloridxTouch(IF ~line.samecolor THEN nextcolor(w.pinf, ax)
                                 ELSE w.pinf, ax)
        color == IF line.color THEN [explicit |-> TRUE, idx |-> 0]
                 ELSE [explicit |-> FALSE, idx |-> p1.coloridx[ax]]
        cls == MethodClass(line.method)
        z == IF ax \in DOMAIN w.pinf.zorder THEN zordernext(w.pinf, ax)
             ELSE IF line.haszorder THEN ZVal(line.zorder)
             ELSE ZVal(DefaultZ(cls))
        artist == [ax |-> ax, by |-> "plotind", obj |-> ind, line |-> lineidx,
                   label |-> label, shown |-> shown, cls |-> cls,
                   color |-> color, z |-> z]
        w1 == [w EXCEPT !.pinf = [p1 EXCEPT !.zorder = DictSet(@, ax, z)],
                        !.fig.artists = Append(@, artist)]
        w2 == [w1 EXCEPT !.pinf = coloridxTouch(@, ax)]
    IN  IF line.plotskip THEN w
        ELSE IF isnan(Last(line.lplot)) THEN w1
        ELSE drawtag(w2, ax, Last(line.lplot),
                     [explicit |-> FALSE, idx |-> w2.pinf.coloridx[ax]])

RECURSIVE plotlines(_, _, _, _, _)
plotlines(w, ax, ind, lineidx, masterax) ==
    IF lineidx > Len(TheObj(ind).lines) \/ w.err THEN w
    ELSE plotlines(plotline(w, ax, ind, lineidx, masterax), ax, ind,
                   lineidx + 1, masterax)

RECURSIVE SelectArtists(_, _, _)
SelectArtists(artists, ax, cls) ==
    IF artists = <<>> THEN <<>>
    ELSE (IF Head(artists).ax = ax /\ Head(artists).cls = cls
             /\ InLegend(Head(artists).label)
          THEN <<Head(artists).label>> ELSE <<>>)
           \o SelectArtists(Tail(artists), ax, cls)

\* ax.get_legend_handles_labels(): the labelled artists of the axis, lines
\* first, then patches, collections and containers, each in draw order
get_legend_handles_labels(f, ax) ==
    SelectArtists(f.artists, ax, "line")
      \o SelectArtists(f.artists, ax, "patch")
      \o SelectArtists(f.artists, ax, "collection")
      \o SelectArtists(f.artists, ax, "container")

RECURSIVE plotind(_, _, _, _)
RECURSIVE plotsubinds(_, _, _)

\* overlays that are given a panel of their own
plotsubindsOwnPanel(w, subinds, ax) ==
    IF subinds = <<>> \/ w.err THEN w
    ELSE plotsubinds(plotind(w, Head(subinds), dplotsover[Head(subinds)], None),
                     Tail(subinds), ax)

plotsubinds(w, subinds, ax) ==
    IF subinds = <<>> \/ w.err THEN w
    ELSE plotsubinds(plotind(w, Head(subinds), dplotsover[Head(subinds)], ax),
                     Tail(subinds), ax)

plotind(w, ind, subinds, masterax) ==
    LET w0 == IF masterax # None THEN w
              ELSE newaxis(w, ind, sch.rowsminor)
        ax == IF masterax # None THEN masterax ELSE LastAx(w0)
        w1 == plotlines(w0, ax, ind, 1, masterax)
        w2 == plotsubinds(w1, subinds, ax)
        labels == get_legend_handles_labels(w2.fig, ax)
    IN  IF w0.err THEN w0
        ELSE IF w2.err THEN w2
        ELSE IF masterax = None /\ sch.legendind /\ TheObj(ind).plotlegend
                /\ labels # <<>>
        THEN [w2 EXCEPT !.fig.axes[ax].legend = labels]
        ELSE w2

\* ------------------------------------------------------------------------
\* plotvolume and plotdata
\* ------------------------------------------------------------------------
VolLabel == Label(<<"Volume">>, FALSE)
DataLabel(d) == Label(<<"data", d>>, TRUE)

\* a volume panel that always takes the minor span
plotvolumeMinor(w, d) ==
    LET w0 == newaxis(w, Volume(d), sch.rowsminor)
        ax == LastAx(w0)
        volplot == [ax |-> ax, by |-> "plotvolume", obj |-> Volume(d), line |-> 0,
                    label |-> Label(<<"Volume">>, FALSE), shown |-> NaN,
                    cls |-> "collection",
                    color |-> [explicit |-> TRUE, idx |-> 0],
                    z |-> ZVal(DefaultZ("collection"))]
    IN  IF w0.err THEN w0
        ELSE [w0 EXCEPT !.fig.artists = Append(@, volplot)]

plotvolume(w, d) ==
    LET rowspan == IF sch.voloverlay THEN sch.rowsmajor ELSE sch.rowsminor
        w0 == newaxis(w, Volume(d), rowspan)
        ax == LastAx(w0)
        volplot == [ax |-> ax, by |-> "plotvolume", obj |-> Volume(d), line |-> 0,
                    label |-> VolLabel, shown |-> NaN, cls |-> "collection",
                    color |-> [explicit |-> TRUE, idx |-> 0],
                    z |-> ZVal(DefaultZ("collection"))]
        w1 == [w0 EXCEPT !.fig.artists = Append(@, volplot)]
        labels == get_legend_handles_labels(w1.fig, ax)
    IN  IF w0.err THEN w0
        ELSE IF sch.voloverlay THEN w1
        ELSE IF labels # <<>> THEN [w1 EXCEPT !.fig.axes[ax].legend = labels]
        ELSE w1

\* axvol.twinx(): a second axis on the rows of axvol, its x axis hidden
twinx(w, axvol, d) ==
    [w EXCEPT !.fig.axes =
        Append(@, [kind |-> "twin", key |-> Data(d), row |-> @[axvol].row,
                   rowspan |-> @[axvol].rowspan, sharex |-> axvol,
                   host |-> axvol, xticklabels |-> FALSE, legend |-> <<>>])]

\* the class of the artist of the price renderer the style selects
PriceClass ==
    IF startswith(sch.style, StyleLine) THEN "line"
    ELSE IF startswith(sch.style, StyleCandle) THEN "collection"
    ELSE "collection"

\* a selection that compares the whole style string
PriceRendererExact ==
    IF sch.style = StyleLine THEN "plot_lineonclose"
    ELSE IF sch.style = StyleCandle THEN "plot_candlestick"
    ELSE "plot_ohlc"

PriceRenderer ==
    IF startswith(sch.style, StyleLine) THEN "plot_lineonclose"
    ELSE IF startswith(sch.style, StyleCandle) THEN "plot_candlestick"
    ELSE "plot_ohlc"

\* data.close[-1], the last close of a data feed
Close == 2

\* the axis the price of data feed d is drawn on
PriceAx(f, d) == CHOOSE a \in 1..Len(f.axes) : f.axes[a].key = Data(d)

\* plotdata, lines 354-429: the axis, the price and its tag
plotdata_price(w, d) ==
    LET overlay == sch.volume /\ sch.voloverlay
        wv == plotvolume(w, d)
        w0 == IF overlay
              THEN (IF wv.err THEN wv
                    ELSE twinx(wv, wv.pinf.daxis[OrderedGet(wv.pinf.daxis, Volume(d))][2], d))
              ELSE newaxis(w, Data(d), sch.rowsmajor)
        ax == LastAx(w0)
        z == ZVal(DefaultZ(PriceClass))
        plotted == [ax |-> ax, by |-> PriceRenderer, obj |-> Data(d), line |-> 0,
                    label |-> DataLabel(d), shown |-> Close, cls |-> PriceClass,
                    color |-> [explicit |-> TRUE, idx |-> 0], z |-> z]
        w1 == [w0 EXCEPT !.fig.artists = Append(@, plotted),
                         !.pinf.zorder = DictSet(@, ax, z)]
    IN  IF w0.err THEN w0
        ELSE drawtag(w1, ax, Close, [explicit |-> TRUE, idx |-> 0])

\* plotdata, lines 431-441: the separate volume panel
plotdata_volume(w, d) ==
    IF sch.volume /\ ~sch.voloverlay THEN plotvolume(w, d) ELSE w

\* labels.insert(0, x)
Insert0(labels, x) == <<x>> \o labels

\* labels.index(x)
Index(labels, x) ==
    CHOOSE i \in 1..Len(labels) :
        labels[i] = x /\ \A j \in 1..(i - 1) : labels[j] # x

\* labels.pop(i)
Popped(labels, i) == SubSeq(labels, 1, i - 1) \o SubSeq(labels, i + 1, Len(labels))

\* a legend that leaves the label of the data where it is
pricelegendNoMove(labels, d) ==
    IF sch.volume /\ sch.voloverlay THEN Insert0(labels, VolLabel) ELSE labels

\* plotdata, lines 446-457: the order of the legend of the price axis
pricelegend(labels, d) ==
    LET l1 == IF sch.volume /\ sch.voloverlay THEN Insert0(labels, VolLabel)
              ELSE labels
        didx == Index(l1, DataLabel(d))
    IN  Insert0(Popped(l1, didx), l1[didx])

\* plotdata, lines 443-467: the overlaid indicators and the legend
plotdata_over(w, d) ==
    LET ax == PriceAx(w.fig, d)
        w1 == plotsubinds(w, dplotsover[Data(d)], ax)
        labels == get_legend_handles_labels(w1.fig, ax)
    IN  IF w1.err THEN w1
        ELSE IF labels # <<>>
        THEN [w1 EXCEPT !.fig.axes[ax].legend = pricelegend(labels, d)]
        ELSE w1

\* ------------------------------------------------------------------------
\* plot, lines 120-151: the x tick labels
\* ------------------------------------------------------------------------
\* the first registered axis taken for the last one
firstax(p) == p.daxis[1][2]

\* daxis.values()[-1], the list of values of Python 2
lastax(p) == p.daxis[Len(p.daxis)][2]

DaxisValues(p) == {p.daxis[i][2] : i \in 1..Len(p.daxis)}

finalize(w) ==
    [w EXCEPT !.fig.axes =
        [a \in 1..Len(@) |->
            IF a = lastax(w.pinf) THEN [@[a] EXCEPT !.xticklabels = TRUE]
            ELSE IF a \in DaxisValues(w.pinf) THEN [@[a] EXCEPT !.xticklabels = FALSE]
            ELSE @[a]]]

\* ------------------------------------------------------------------------
\* plot: the position of the run in the loops of lines 105-118
\* ------------------------------------------------------------------------
Pos(stage, d, i) == [stage |-> stage, di |-> d, ii |-> i]

\* the first position at or after pos that has something to do, for the
\* placement groups g.top, g.up, g.down
RECURSIVE NextPos(_, _)
NextPos(pos, g) ==
    IF pos.stage = "top"
    THEN IF pos.ii <= Len(g.top) THEN pos ELSE NextPos(Pos("up", 1, 1), g)
    ELSE IF pos.stage = "up"
    THEN IF pos.di > NumDatas THEN Pos("final", pos.di, 1)
         ELSE IF pos.ii <= Len(g.up[Data(pos.di)]) THEN pos
         ELSE Pos("price", pos.di, 1)
    ELSE IF pos.stage = "down"
    THEN IF pos.ii <= Len(g.down[Data(pos.di)]) THEN pos
         ELSE NextPos(Pos("up", pos.di + 1, 1), g)
    ELSE pos

Groups == [top |-> dplotstop, up |-> dplotsup, down |-> dplotsdown]

TheWorld == World(pinf, fig)

\* the step of plot() that made w ends at pos, or with the exception
Continue(w, pos) ==
    /\ pinf' = w.pinf
    /\ fig' = w.fig
    /\ IF w.err
       THEN pc' = "aborted" /\ UNCHANGED <<di, ii>>
       ELSE LET n == NextPos(pos, Groups)
            IN  pc' = n.stage /\ di' = n.di /\ ii' = n.ii
    /\ UNCHANGED <<strategy, sch, dplotstop, dplotsup, dplotsdown, dplotsover,
                   run, prev>>

\* ------------------------------------------------------------------------
\* Actions
\* ------------------------------------------------------------------------
\* a call that goes on to classify although there is no data feed
PlotNoDatasGoOn ==
    /\ pc = "start"
    /\ strategy.datas = <<>>
    /\ pc' = "sort"
    /\ UNCHANGED <<strategy, sch, di, ii, dplotstop, dplotsup, dplotsdown,
                   dplotsover, pinf, fig, run, prev>>

\* lines 94-95: nothing to plot
PlotNoDatas ==
    /\ pc = "start"
    /\ strategy.datas = <<>>
    /\ pc' = "returned"
    /\ UNCHANGED <<strategy, sch, di, ii, dplotstop, dplotsup, dplotsdown,
                   dplotsover, pinf, fig, run, prev>>

\* a call that goes on with the PInfo of the call before
PlotBeginKeepPInfo ==
    /\ pc = "start"
    /\ strategy.datas # <<>>
    /\ pinf' = pinf
    /\ fig' = NoFig
    /\ pc' = "sort"
    /\ UNCHANGED <<strategy, sch, di, ii, dplotstop, dplotsup, dplotsdown,
                   dplotsover, run, prev>>

\* lines 97 and 103: a fresh PInfo, and the figure as this call draws it
PlotBegin ==
    /\ pc = "start"
    /\ strategy.datas # <<>>
    /\ pinf' = PInfo
    /\ fig' = NoFig
    /\ pc' = "sort"
    /\ UNCHANGED <<strategy, sch, di, ii, dplotstop, dplotsup, dplotsdown,
                   dplotsover, run, prev>>

\* line 99
SortDataIndicators ==
    /\ pc = "sort"
    /\ LET g == sortdataindicators
       IN  /\ dplotstop' = g.top
           /\ dplotsup' = g.up
           /\ dplotsdown' = g.down
           /\ dplotsover' = g.over
    /\ pc' = "calcrows"
    /\ UNCHANGED <<strategy, sch, di, ii, pinf, fig, run, prev>>

\* line 100
CalcRows ==
    /\ pc = "calcrows"
    /\ Continue([TheWorld EXCEPT !.pinf.nrows = calcrows], Pos("top", 1, 1))

\* lines 107-108
PlotTop ==
    /\ pc = "top"
    /\ Continue(plotind(TheWorld, dplotstop[ii], dplotsover[dplotstop[ii]], None),
                Pos("top", di, ii + 1))

\* lines 112-113
PlotAbove ==
    /\ pc = "up"
    /\ LET ind == dplotsup[Data(di)][ii]
       IN  Continue(plotind(TheWorld, ind, dplotsover[ind], None),
                    Pos("up", di, ii + 1))

\* line 115, first part of plotdata
PlotDataPrice ==
    /\ pc = "price"
    /\ Continue(plotdata_price(TheWorld, di), Pos("volume", di, 1))

PlotDataVolume ==
    /\ pc = "volume"
    /\ Continue(plotdata_volume(TheWorld, di), Pos("over", di, 1))

PlotDataOver ==
    /\ pc = "over"
    /\ Continue(plotdata_over(TheWorld, di), Pos("down", di, 1))

\* lines 117-118
PlotBelow ==
    /\ pc = "down"
    /\ LET ind == dplotsdown[Data(di)][ii]
       IN  Continue(plotind(TheWorld, ind, dplotsover[ind], None),
                    Pos("down", di, ii + 1))

\* lines 120-155
FinalizeAxis ==
    /\ pc = "final"
    /\ Continue(finalize(TheWorld), Pos("done", di, 1))

\* what a finished call of plot() leaves behind
Outcome ==
    [pc |-> pc, pinf |-> pinf, fig |-> fig, top |-> dplotstop, up |-> dplotsup,
     down |-> dplotsdown, over |-> dplotsover]

Finished == pc \in {"returned", "done", "aborted"}

\* plot() is called again on the same Plot object with the same strategy;
\* self.pinf and the dplots dictionaries are still those of the call before
PlotAgain ==
    /\ Finished
    /\ run < MaxRuns
    /\ run' = run + 1
    /\ prev' = Outcome
    /\ pc' = "start"
    /\ di' = 1
    /\ ii' = 1
    /\ UNCHANGED <<strategy, sch, dplotstop, dplotsup, dplotsdown, dplotsover,
                   pinf, fig>>

Next ==
    \/ PlotNoDatas
    \/ PlotBegin
    \/ SortDataIndicators
    \/ CalcRows
    \/ PlotTop
    \/ PlotAbove
    \/ PlotDataPrice
    \/ PlotDataVolume
    \/ PlotDataOver
    \/ PlotBelow
    \/ FinalizeAxis

\* one call of plot() after the other
NextRuns == Next \/ PlotAgain

\* ------------------------------------------------------------------------
\* Initial states: the inputs of plot()
\* ------------------------------------------------------------------------
Datas(nd) == [d \in 1..nd |-> Data(d)]

\* every arrangement of observers and indicators, each with one plain line
LayoutInputs ==
    \E nd \in 0..MaxDatas, n \in 0..MaxObjs :
      \E objs \in ObjSeqs(n, nd) :
        \E rmaj \in 1..MaxRowsMajor, rmin \in 1..MaxRowsMinor, vm \in VolumeModes :
          /\ strategy = [datas |-> Datas(nd), objs |-> objs]
          /\ sch = MkScheme(rmaj, rmin, vm[1], vm[2], FALSE, StyleCandle)

\* the lines of the second family: skipped, plain, with a pinned z-order of
\* zero, and drawn as bars
LineShapes ==
    {[PlainLine EXCEPT !.plotskip = TRUE],
     PlainLine,
     [PlainLine EXCEPT !.haszorder = TRUE],
     [PlainLine EXCEPT !.method = "bar"]}

RECURSIVE LineSeqs(_)
LineSeqs(n) ==
    IF n = 0 THEN {<<>>}
    ELSE {Append(s, x) : s \in LineSeqs(n - 1), x \in LineShapes}

ObjLines == UNION {LineSeqs(n) : n \in 1..MaxLines}

\* a first object with a panel of its own or overlaid on the data feed
FirstShapes ==
    {MkObj("obs", TRUE, TRUE, FALSE, TRUE, FALSE, DirectClock(Data(1)), FALSE, ls) :
        ls \in ObjLines}
      \cup {MkObj("ind", TRUE, TRUE, FALSE, sp[1], sp[2], DirectClock(Data(1)), FALSE, ls) :
              sp \in {<<TRUE, TRUE>>, <<TRUE, FALSE>>, <<FALSE, FALSE>>},
              ls \in ObjLines}

\* a second object overlaid on the data feed or on the first object
SecondShapes ==
    {MkObj("ind", TRUE, TRUE, FALSE, FALSE, FALSE, DirectClock(k), ll, ls) :
        k \in {Data(1), Obj(1)}, ll \in BOOLEAN, ls \in ObjLines}

LineObjs ==
    {<<>>} \cup {<<x>> : x \in FirstShapes}
      \cup {<<x, y>> : x \in FirstShapes, y \in SecondShapes}

\* one data feed and up to two objects with every kind of line
LineInputs ==
    \/ /\ strategy = [datas |-> <<>>, objs |-> <<>>]
       /\ sch = MkScheme(1, 1, FALSE, FALSE, FALSE, StyleCandle)
    \/ \E objs \in LineObjs :
         \E vm \in {<<FALSE, FALSE>>, <<TRUE, TRUE>>}, zdown \in BOOLEAN,
            style \in {StyleLine, StyleCandle} :
           /\ strategy = [datas |-> Datas(1), objs |-> objs]
           /\ sch = MkScheme(1, 1, vm[1], vm[2], zdown, style)

InitRun ==
    /\ pc = "start"
    /\ di = 1
    /\ ii = 1
    /\ dplotstop = <<>>
    /\ dplotsup = <<>>
    /\ dplotsdown = <<>>
    /\ dplotsover = <<>>
    /\ pinf = PInfo
    /\ fig = NoFig
    /\ run = 1
    /\ prev = <<>>

Init == LayoutInputs /\ InitRun

InitLines == LineInputs /\ InitRun

\* plot() over every layout
Spec == Init /\ [][Next]_vars

\* plot() over every kind of line
SpecLines == InitLines /\ [][Next]_vars

\* the lines of the third family: skipped, plain, with a pinned color, with
\* _samecolor, without any value, and with values but none at the right edge
ColorShapes ==
    {[PlainLine EXCEPT !.plotskip = TRUE],
     PlainLine,
     [PlainLine EXCEPT !.color = TRUE],
     [PlainLine EXCEPT !.samecolor = TRUE],
     [PlainLine EXCEPT !.lplot = <<NaN, NaN>>],
     [PlainLine EXCEPT !.lplot = <<1, NaN>>]}

RECURSIVE ColorSeqs(_)
ColorSeqs(n) ==
    IF n = 0 THEN {<<>>}
    ELSE {Append(s, x) : s \in ColorSeqs(n - 1), x \in ColorShapes}

ColorLines == UNION {ColorSeqs(n) : n \in 1..MaxLines}

ColorFirst ==
    {MkObj("obs", TRUE, TRUE, FALSE, TRUE, FALSE, DirectClock(Data(1)), FALSE, ls) :
        ls \in ColorLines}
      \cup {MkObj("ind", TRUE, TRUE, FALSE, sp[1], sp[2], DirectClock(Data(1)), FALSE, ls) :
              sp \in {<<TRUE, TRUE>>, <<TRUE, FALSE>>, <<FALSE, FALSE>>},
              ls \in ColorLines}

ColorSecond ==
    {MkObj("ind", TRUE, TRUE, FALSE, FALSE, FALSE, DirectClock(k), FALSE, <<l>>) :
        k \in {Data(1), Obj(1)}, l \in ColorShapes}

ColorObjs ==
    {<<>>} \cup {<<x>> : x \in ColorFirst}
      \cup {<<x, y>> : x \in ColorFirst, y \in ColorSecond}

\* one data feed and up to two objects with every kind of color and value
ColorInputs ==
    \/ /\ strategy = [datas |-> <<>>, objs |-> <<>>]
       /\ sch = MkScheme(1, 1, FALSE, FALSE, FALSE, StyleCandle)
    \/ \E objs \in ColorObjs :
         \E vm \in {<<FALSE, FALSE>>, <<TRUE, TRUE>>} :
           /\ strategy = [datas |-> Datas(1), objs |-> objs]
           /\ sch = MkScheme(1, 1, vm[1], vm[2], FALSE, StyleCandle)

InitColors == ColorInputs /\ InitRun

\* plot() called up to MaxRuns times, over every kind of color and value
SpecRuns == InitColors /\ [][NextRuns]_vars

\* up to one object with a plain line, every style and every volume mode
StyleInputs ==
    \E nd \in 0..MaxDatas :
      \E objs \in {<<>>} \cup {<<x>> : x \in VisibleShapes(1, nd, <<PlainLine>>)} :
        \E vm \in VolumeModes, style \in Styles :
          /\ strategy = [datas |-> Datas(nd), objs |-> objs]
          /\ sch = MkScheme(1, 1, vm[1], vm[2], FALSE, style)

InitStyles == StyleInputs /\ InitRun

\* plot() over every style of the price
SpecStyles == InitStyles /\ [][Next]_vars

\* ------------------------------------------------------------------------
\* Properties
\* ------------------------------------------------------------------------
Sorted == pc \notin {"start", "sort", "returned"}
Planned == Sorted /\ pc # "calcrows"
Rendered == pc \in {"final", "done"}

\* the axes newaxis made, in the order it made them
RECURSIVE Subplots(_, _)
Subplots(axes, a) ==
    IF a > Len(axes) THEN <<>>
    ELSE (IF axes[a].kind = "subplot" THEN <<a>> ELSE <<>>)
           \o Subplots(axes, a + 1)

Panels == Subplots(fig.axes, 1)

\* C1: when plot() has rendered all panels, the row cursor equals the total
\* row count calcrows computed.
C1_RowsConsumedEqualPlanned == Rendered => pinf.row = pinf.nrows

\* how many times x occurs in the sequence s
RECURSIVE Count(_, _)
Count(s, x) ==
    IF s = <<>> THEN 0
    ELSE (IF Head(s) = x THEN 1 ELSE 0) + Count(Tail(s), x)

RECURSIVE CountIn(_, _, _)
CountIn(d, ks, x) ==
    IF ks = {} THEN 0
    ELSE LET k == CHOOSE y \in ks : TRUE
         IN  Count(d[k], x) + CountIn(d, ks \ {k}, x)

\* the number of places object x has in top, above[*], below[*], overlay[*]
Placements(x) ==
    Count(dplotstop, x) + CountIn(dplotsup, DOMAIN dplotsup, x)
      + CountIn(dplotsdown, DOMAIN dplotsdown, x)
      + CountIn(dplotsover, DOMAIN dplotsover, x)

Plottable(x) ==
    TheObj(x).hasplotinfo /\ TheObj(x).plot /\ ~TheObj(x).plotskip

\* C3: after sortdataindicators every object that has plot metadata, is
\* visible and is not skipped has exactly one place in the four placement
\* groups, and every other object has none.
C3_ExactlyOnePlacement ==
    Sorted =>
        \A j \in 1..NumObjs :
            Placements(Obj(j)) = IF Plottable(Obj(j)) THEN 1 ELSE 0

\* C3 witness: classification has run on a strategy with a placed and an
\* unplaced object
C3_Witness ==
    /\ pc = "calcrows"
    /\ \E j, k \in 1..NumObjs :
         /\ Plottable(Obj(j)) /\ Placements(Obj(j)) = 1
         /\ ~Plottable(Obj(k)) /\ TheObj(Obj(k)).kind = "ind" /\ TheObj(Obj(k)).plot

\* C4: in every state of a run the row cursor is at most the total row count.
C4_RowWithinTotal == Planned => pinf.row <= pinf.nrows

\* the row count the layout planner is specified to compute
PlannedRows ==
    NumDatas * sch.rowsmajor
      + (IF sch.volume /\ ~sch.voloverlay THEN NumDatas * sch.rowsminor ELSE 0)
      + Len(dplotstop) * sch.rowsminor
      + (SumLen(dplotsup, DOMAIN dplotsup) + SumLen(dplotsdown, DOMAIN dplotsdown))
          * sch.rowsminor

\* C8: the total row count is datas x rowsmajor, plus datas x rowsminor for
\* separate volume panels, plus top entries x rowsminor, plus above and below
\* entries x rowsminor.
C8_RowFormula == Planned => pinf.nrows = PlannedRows

Overlaid == sch.volume /\ sch.voloverlay

\* what the panel of an axis shows: an indicator or observer, the price of a
\* data feed (with the overlaid volume), or the volume of a data feed
PanelOf(a) ==
    LET k == fig.axes[a].key
    IN  IF k[1] = "obj" THEN k
        ELSE IF k[1] = "data" \/ Overlaid THEN <<"price", k[2]>>
        ELSE <<"volume", k[2]>>

Created == [i \in 1..Len(Panels) |-> PanelOf(Panels[i])]

RECURSIVE PerData(_)
PerData(d) ==
    IF d > NumDatas THEN <<>>
    ELSE dplotsup[Data(d)] \o <<(<<"price", d>>)>>
           \o (IF sch.volume /\ ~sch.voloverlay THEN <<(<<"volume", d>>)>> ELSE <<>>)
           \o dplotsdown[Data(d)] \o PerData(d + 1)

ExpectedPanels == dplotstop \o PerData(1)

IsPrefix(s, t) == Len(s) <= Len(t) /\ SubSeq(t, 1, Len(s)) = s

\* the panels so far are the first ones of the fixed order
PanelsInOrder == Planned => IsPrefix(Created, ExpectedPanels)

\* C5: panels are created in the order top entries, then per data feed its
\* above entries, its price panel, its separate volume panel, its below
\* entries; a run ends with exactly these panels.
C5_PanelOrder ==
    Planned =>
        /\ IsPrefix(Created, ExpectedPanels)
        /\ pc \in {"final", "done", "aborted"} => Created = ExpectedPanels

OneBareData == NumDatas = 1 /\ NumObjs = 0

\* C6: one data feed without indicators or observers gets one major panel
\* with the volume axis and the price axis twinned on it when volume is
\* overlaid, a major price panel and a minor volume panel when volume is
\* separate, and one major price panel when volume is off.
C6_BareDataPanels ==
    (pc = "done" /\ OneBareData) =>
        IF sch.volume /\ sch.voloverlay
        THEN /\ Len(fig.axes) = 2
             /\ Panels = <<1>>
             /\ fig.axes[1].key = Volume(1)
             /\ fig.axes[1].rowspan = sch.rowsmajor
             /\ fig.axes[2].kind = "twin"
             /\ fig.axes[2].host = 1
             /\ fig.axes[2].key = Data(1)
             /\ pinf.row = sch.rowsmajor
        ELSE IF sch.volume
        THEN /\ Len(fig.axes) = 2
             /\ Panels = <<1, 2>>
             /\ fig.axes[1].key = Data(1)
             /\ fig.axes[1].rowspan = sch.rowsmajor
             /\ fig.axes[2].key = Volume(1)
             /\ fig.axes[2].rowspan = sch.rowsminor
             /\ pinf.row = sch.rowsmajor + sch.rowsminor
        ELSE /\ Len(fig.axes) = 1
             /\ Panels = <<1>>
             /\ fig.axes[1].key = Data(1)
             /\ fig.axes[1].rowspan = sch.rowsmajor
             /\ pinf.row = sch.rowsmajor

\* C6 witness: a bare data feed rendered with overlaid volume and a major
\* span that differs from the minor span
C6_Witness ==
    /\ pc = "done"
    /\ OneBareData
    /\ sch.volume /\ sch.voloverlay
    /\ sch.rowsmajor > sch.rowsminor
    /\ Len(fig.axes) = 2

\* C7: after the final axis formatting the panel created last is the only
\* panel with visible x tick labels.
C7_OnlyLastPanelLabelled ==
    pc = "done" =>
        \A i \in 1..Len(Panels) :
            fig.axes[Panels[i]].xticklabels <=> (i = Len(Panels))

\* C7 witness: a finished chart of at least three panels, the last one
\* carrying a twinned price axis
C7_Witness ==
    /\ pc = "done"
    /\ Len(Panels) >= 3
    /\ Len(fig.axes) > Len(Panels)
    /\ fig.axes[Panels[Len(Panels)]].xticklabels
    /\ ~fig.axes[Panels[1]].xticklabels

\* C9: newaxis returns no panel for a request that would move the row
\* cursor past the total row count.
C9_OverflowingRequestFails ==
    Planned =>
        \A i \in 1..Len(Panels) :
            fig.axes[Panels[i]].row + fig.axes[Panels[i]].rowspan <= pinf.nrows

\* the data feeds whose price legend has been drawn
WithLegend == {d \in 1..NumDatas :
                 /\ \E a \in 1..Len(fig.axes) : fig.axes[a].key = Data(d)
                 /\ fig.axes[PriceAx(fig, d)].legend # <<>>}

PriceLegend(d) == fig.axes[PriceAx(fig, d)].legend

\* the legend labels of the indicators overlaid on axis ax that s holds
RECURSIVE OverlayLabels(_, _)
OverlayLabels(s, ax) ==
    IF s = <<>> THEN <<>>
    ELSE (IF Head(s).ax = ax /\ Head(s).by = "plotind" /\ InLegend(Head(s).label)
          THEN <<Head(s).label>> ELSE <<>>)
           \o OverlayLabels(Tail(s), ax)

RECURSIVE OfClass(_, _)
OfClass(s, cls) ==
    IF s = <<>> THEN <<>>
    ELSE (IF Head(s).cls = cls THEN <<Head(s)>> ELSE <<>>) \o OfClass(Tail(s), cls)

\* C2 (as claimed): on the price legend the volume label is first, ahead of
\* the price label, when volume is overlaid, the price label is first
\* otherwise, and the other entries follow in draw order.
C2_VolumeLabelFirst ==
    \A d \in WithLegend :
        PriceLegend(d) =
            (IF Overlaid THEN <<VolLabel, DataLabel(d)>> ELSE <<DataLabel(d)>>)
              \o OverlayLabels(fig.artists, PriceAx(fig, d))

\* C2 (amended): on the price legend the price label is always first, the
\* volume label is second when volume is overlaid, and the other entries
\* follow with the lines in draw order before the bars in draw order.
C2_PriceLabelFirst ==
    \A d \in WithLegend :
        PriceLegend(d) =
            <<DataLabel(d)>> \o (IF Overlaid THEN <<VolLabel>> ELSE <<>>)
              \o OverlayLabels(OfClass(fig.artists, "line"), PriceAx(fig, d))
              \o OverlayLabels(OfClass(fig.artists, "container"), PriceAx(fig, d))

\* C2 witness: a price legend with overlaid volume, a bar drawn before a line
C2_Witness ==
    \E d \in WithLegend :
        /\ Overlaid
        /\ Len(PriceLegend(d)) = 4
        /\ OverlayLabels(fig.artists, PriceAx(fig, d))
             = <<PriceLegend(d)[4], PriceLegend(d)[3]>>

\* the artists plotdata and plotind drew on axis ax, in draw order
RECURSIVE DrawnOn(_, _)
DrawnOn(s, ax) ==
    IF s = <<>> THEN <<>>
    ELSE (IF Head(s).ax = ax /\ Head(s).by # "plotvolume" THEN <<Head(s)>> ELSE <<>>)
           \o DrawnOn(Tail(s), ax)

\* b is a times the epsilon of the scheme
ZStep(a, b) ==
    IF sch.zdown THEN b = [a EXCEPT !.down = @ + 1] /\ ZLess(b, a)
    ELSE b = [a EXCEPT !.up = @ + 1] /\ ZLess(a, b)

\* the z-orders of the artists follow each other by the epsilon, whatever
\* the sign of the first
ZChain ==
    \A ax \in 1..Len(fig.axes) :
        LET s == DrawnOn(fig.artists, ax)
        IN  /\ \A i \in 2..Len(s) :
                 s[i].z = IF sch.zdown THEN [s[i - 1].z EXCEPT !.down = @ + 1]
                          ELSE [s[i - 1].z EXCEPT !.up = @ + 1]
            /\ s # <<>> => pinf.zorder[ax] = s[Len(s)].z

\* C10: on every panel each artist drawn after the first has the z-order of
\* the one before it times 1.0001, strictly greater (times 0.9999, strictly
\* smaller, with zdown), and the z-order recorded for the panel is that of
\* the artist drawn last.
C10_ZOrderStrictlyMonotonic ==
    \A ax \in 1..Len(fig.axes) :
        LET s == DrawnOn(fig.artists, ax)
        IN  /\ \A i \in 2..Len(s) : ZStep(s[i - 1].z, s[i].z)
            /\ s # <<>> => pinf.zorder[ax] = s[Len(s)].z

\* ------------------------------------------------------------------------
\* C11: a second call of plot() on the same input ends as the first one did,
\* with the same panels, artists, color indices, z-orders and tags, and with
\* the same row cursor, panel registry, color counters and z-order records:
\* nothing of the first call is carried into the second
\* ------------------------------------------------------------------------
C11_SecondRunIdentical ==
    (run > 1 /\ Finished) =>
        /\ pc = prev.pc
        /\ fig = prev.fig
        /\ pinf = prev.pinf

\* a second call that drew two auto-colored lines on a panel of their own
C11_Witness ==
    /\ run > 1
    /\ pc = "done"
    /\ \E i \in 1..Len(fig.artists) :
          /\ fig.artists[i].by = "plotind"
          /\ ~fig.artists[i].color.explicit
          /\ fig.artists[i].color.idx = 1
          /\ fig.artists[i].z.up > 0

\* ------------------------------------------------------------------------
\* C12: with no data feed plot() returns at once: nothing is classified, no
\* row is planned, no panel is created, nothing is drawn and nothing is
\* finalized
\* ------------------------------------------------------------------------
C12_NoDatasReturnsAtOnce ==
    NumDatas = 0 =>
        /\ pc \in {"start", "returned"}
        /\ dplotstop = <<>> /\ dplotsup = <<>>
        /\ dplotsdown = <<>> /\ dplotsover = <<>>
        /\ pinf = PInfo
        /\ fig = NoFig

\* plot() has returned although an observer asks for a panel of its own
C12_Witness ==
    /\ pc = "returned"
    /\ NumDatas = 0
    /\ \E j \in 1..NumObjs :
          /\ strategy.objs[j].kind = "obs"
          /\ strategy.objs[j].plot /\ ~strategy.objs[j].plotskip
          /\ strategy.objs[j].subplot

\* ------------------------------------------------------------------------
\* C13: the price of every data feed is drawn by exactly one renderer: the
\* line renderer for a style that begins with "line", the candlestick
\* renderer for one that begins with "candle", the OHLC renderer for every
\* other style ("bar", "area", ...)
\* ------------------------------------------------------------------------
RendererOf(style) ==
    IF style = StyleLine THEN "plot_lineonclose"
    ELSE IF style \in {StyleCandle, StyleCandlestick} THEN "plot_candlestick"
    ELSE "plot_ohlc"

PriceArtists(d) == {i \in 1..Len(fig.artists) : fig.artists[i].obj = Data(d)}

\* the price step of data feed d is over
PriceDone(d) ==
    \/ pc \in {"final", "done"}
    \/ pc \in {"up", "price", "volume", "over", "down"} /\ d < di
    \/ pc \in {"volume", "over", "down"} /\ d = di

C13_OneRendererPerStyle ==
    \A d \in 1..NumDatas :
        /\ PriceDone(d) =>
              /\ Cardinality(PriceArtists(d)) = 1
              /\ \A i \in PriceArtists(d) : fig.artists[i].by = RendererOf(sch.style)
        /\ Cardinality(PriceArtists(d)) <= 1

\* two data feeds drawn by the OHLC renderer for a style it does not name
C13_Witness ==
    /\ pc = "done"
    /\ sch.style = StyleArea
    /\ NumDatas = 2
    /\ \A d \in 1..NumDatas :
          \E i \in PriceArtists(d) : fig.artists[i].by = "plot_ohlc"

\* ------------------------------------------------------------------------
\* C14: when plot() is done every object that sortdataindicators placed has
\* been drawn exactly once: an entry of top, above or below on exactly one
\* panel of its own, an overlay entry on a panel of another object and
\* without a panel of its own, whatever the key of its list is
\* ------------------------------------------------------------------------
ArtistsOf(x) == {i \in 1..Len(fig.artists) : fig.artists[i].obj = x}
PanelsOf(x) ==
    {a \in 1..Len(fig.axes) : fig.axes[a].kind = "subplot" /\ fig.axes[a].key = x}
Visible(lines) == {l \in 1..Len(lines) : ~lines[l].plotskip}

InOverlay(x) == CountIn(dplotsover, DOMAIN dplotsover, x) > 0

C14_PlacedDrawnOnce ==
    pc = "done" =>
        \A j \in 1..NumObjs :
            Placements(Obj(j)) > 0 =>
                /\ Cardinality(ArtistsOf(Obj(j))) = Cardinality(Visible(TheObj(Obj(j)).lines))
                /\ Cardinality(PanelsOf(Obj(j))) = IF InOverlay(Obj(j)) THEN 0 ELSE 1
                /\ \A i \in ArtistsOf(Obj(j)) :
                      IF InOverlay(Obj(j))
                      THEN fig.artists[i].ax \notin PanelsOf(Obj(j))
                      ELSE fig.artists[i].ax \in PanelsOf(Obj(j))

\* ------------------------------------------------------------------------
\* C15: the legend suffix and the value tag of the lines plotind draws
\* ------------------------------------------------------------------------
\* the values of the line an artist of plotind shows
LineOf(a) == TheObj(a.obj).lines[a.line].lplot

\* the last value of a series that is a number, NaN if there is none
RECURSIVE LastValid(_)
LastValid(s) ==
    IF s = <<>> THEN NaN
    ELSE IF s[Len(s)] # NaN THEN s[Len(s)]
    ELSE LastValid(SubSeq(s, 1, Len(s) - 1))

\* the value at the right edge of a series
RightEdge(s) == s[Len(s)]

\* the number an artist is expected to show: of a line the last valid value
\* (any = TRUE) or the value at the right edge, of a price the last close
Wanted(a, any) ==
    IF a.by = "plotind"
    THEN (IF any THEN LastValid(LineOf(a)) ELSE RightEdge(LineOf(a)))
    ELSE IF a.obj[1] = "data" THEN Close
    ELSE NaN

\* the values of the tags expected on axis ax, in draw order
RECURSIVE TagsWanted(_, _, _)
TagsWanted(artists, ax, any) ==
    IF artists = <<>> THEN <<>>
    ELSE (IF Head(artists).ax = ax /\ Wanted(Head(artists), any) # NaN
          THEN <<Wanted(Head(artists), any)>> ELSE <<>>)
           \o TagsWanted(Tail(artists), ax, any)

\* the values of the tags drawn on axis ax, in draw order
RECURSIVE TagsDrawn(_, _)
TagsDrawn(tags, ax) ==
    IF tags = <<>> THEN <<>>
    ELSE (IF Head(tags).ax = ax THEN <<Head(tags).y>> ELSE <<>>)
           \o TagsDrawn(Tail(tags), ax)

SuffixAndTag(any) ==
    /\ \A ax \in 1..Len(fig.axes) :
          TagsDrawn(fig.tags, ax) = TagsWanted(fig.artists, ax, any)
    /\ \A i \in 1..Len(fig.artists) :
          fig.artists[i].by = "plotind" =>
              /\ fig.artists[i].label.value = (Wanted(fig.artists[i], any) # NaN)
              /\ fig.artists[i].shown = Wanted(fig.artists[i], any)

OwnerOf(j) ==
    IF strategy.objs[j].clock.hasowner THEN strategy.objs[j].clock.owner
    ELSE strategy.objs[j].clock.id

\* the objects with the numbers of S, by ascending number
InOrder(S) ==
    [n \in 1..Cardinality(S) |->
        Obj(CHOOSE j \in S : Cardinality({i \in S : i < j}) = n - 1)]

Shown(kind) ==
    {j \in 1..NumObjs : strategy.objs[j].kind = kind /\ Plottable(Obj(j))}

RuleTop == InOrder({j \in Shown("obs") : strategy.objs[j].subplot})
RuleOver(k) ==
    InOrder({j \in Shown("obs") : ~strategy.objs[j].subplot /\ OwnerOf(j) = k})
      \o InOrder({j \in Shown("ind") : ~strategy.objs[j].subplot /\ OwnerOf(j) = k})
RuleAbove(k) ==
    InOrder({j \in Shown("ind") : /\ strategy.objs[j].subplot
                                  /\ strategy.objs[j].plotabove
                                  /\ OwnerOf(j) = k})
RuleBelow(k) ==
    InOrder({j \in Shown("ind") : /\ strategy.objs[j].subplot
                                  /\ ~strategy.objs[j].plotabove
                                  /\ OwnerOf(j) = k})

C16_ClassifiedByRuleInOrder ==
    Sorted =>
        /\ dplotstop = RuleTop
        /\ \A k \in Keys :
              /\ dplotsover[k] = RuleOver(k)
              /\ dplotsup[k] = RuleAbove(k)
              /\ dplotsdown[k] = RuleBelow(k)
        /\ \A j \in 1..NumObjs : Plottable(Obj(j)) /\ ~strategy.objs[j].subplot
                                        => OwnerOf(j) \in Keys

\* an observer and an indicator, declared in this order behind clocks with an
\* owner back-reference, share an overlay list
C16_Witness ==
    /\ Sorted
    /\ NumObjs = 2
    /\ strategy.objs[1].kind = "ind" /\ strategy.objs[2].kind = "obs"
    /\ strategy.objs[1].clock.hasowner /\ strategy.objs[2].clock.hasowner
    /\ dplotsover[Data(1)] = <<Obj(2), Obj(1)>>

\* ------------------------------------------------------------------------
\* C17: drawing overlay entries allocates nothing: the overlay step of
\* plotdata leaves the row cursor, the panel registry and the shared-x
\* anchor as they are, a plotind step with a panel of its own takes exactly
\* that one panel however many overlays (and overlays of overlays) it draws,
\* and every line of an overlay entry is on the panel of its owner
\* ------------------------------------------------------------------------
\* the axis the lines of x belong on: the price axis of a data feed, the
\* panel of an object that has one, the axis of the owner of an overlay
RECURSIVE HostAx(_)
HostAx(x) ==
    IF x[1] = "data" THEN PriceAx(fig, x[2])
    ELSE IF InOverlay(x) THEN HostAx(OwnerOf(x[2]))
    ELSE CHOOSE a \in PanelsOf(x) : TRUE

OverlaysOnHost ==
    \A i \in 1..Len(fig.artists) :
        (fig.artists[i].by = "plotind" /\ InOverlay(fig.artists[i].obj))
            => /\ fig.artists[i].ax = HostAx(OwnerOf(fig.artists[i].obj[2]))
               /\ PanelsOf(fig.artists[i].obj) = {}

C17_OverlayAllocatesNoPanel ==
    [][/\ pc = "over" =>
            /\ pinf'.row = pinf.row
            /\ pinf'.daxis = pinf.daxis
            /\ pinf'.sharex = pinf.sharex
            /\ Len(fig'.axes) = Len(fig.axes)
       /\ (pc \in {"top", "up", "down"} /\ pc' # "aborted") =>
            /\ pinf'.row = pinf.row + sch.rowsminor
            /\ Len(pinf'.daxis) = Len(pinf.daxis) + 1
            /\ Len(fig'.axes) = Len(fig.axes) + 1
       /\ OverlaysOnHost']_vars

\* an overlay of an overlay of a data feed has been drawn on the price axis
C17_Witness ==
    /\ pc = "done"
    /\ \E i \in 1..Len(fig.artists) :
          LET x == fig.artists[i].obj
          IN  /\ fig.artists[i].by = "plotind"
              /\ InOverlay(x)
              /\ OwnerOf(x[2])[1] = "obj"
              /\ InOverlay(OwnerOf(x[2]))
              /\ fig.artists[i].ax = PriceAx(fig, 1)

\* ------------------------------------------------------------------------
\* C18: the color counter of a panel counts the lines drawn on it that pin
\* no color and do not ask for _samecolor: each of them advances it by one,
\* the first gets index 0 and the next ones the following indices; a line
\* with a pinned color, a line with _samecolor, a skipped line and anything
\* drawn on another panel leave it as it is
\* ------------------------------------------------------------------------
\* the color counter of an axis, -1 before its first use
Counter(ax) ==
    IF ax \in DOMAIN pinf.coloridx THEN pinf.coloridx[ax] ELSE -1

TheLine(a) == TheObj(a.obj).lines[a.line]

\* a line plotind drew on ax with a color of the counter advanced for it
AutoColored(i, ax) ==
    /\ fig.artists[i].by = "plotind"
    /\ fig.artists[i].ax = ax
    /\ ~TheLine(fig.artists[i]).color
    /\ ~TheLine(fig.artists[i]).samecolor

\* the number of such lines among the first n artists
Advances(n, ax) == Cardinality({i \in 1..n : AutoColored(i, ax)})

C18_CounterCountsAutoColored ==
    /\ \A ax \in 1..Len(fig.axes) :
          Counter(ax) = Advances(Len(fig.artists), ax) - 1
    /\ \A i \in 1..Len(fig.artists) :
          (fig.artists[i].by = "plotind" /\ ~TheLine(fig.artists[i]).color) =>
              /\ ~fig.artists[i].color.explicit
              /\ fig.artists[i].color.idx = Advances(i, fig.artists[i].ax) - 1
    /\ \A i \in 1..Len(fig.artists) :
          (fig.artists[i].by = "plotind" /\ TheLine(fig.artists[i]).color) =>
              fig.artists[i].color.explicit

\* on one panel an auto-colored line with index 0, a line that reuses its
\* color and a second auto-colored line with index 1
C18_Witness ==
    /\ pc = "done"
    /\ \E i \in 1..Len(fig.artists) :
          LET ax == fig.artists[i].ax
          IN  /\ AutoColored(i, ax) /\ fig.artists[i].color.idx = 0
              /\ i + 2 <= Len(fig.artists)
              /\ fig.artists[i + 1].ax = ax /\ fig.artists[i + 1].by = "plotind"
              /\ TheLine(fig.artists[i + 1]).samecolor
              /\ fig.artists[i + 1].color.idx = 0
              /\ AutoColored(i + 2, ax) /\ fig.artists[i + 2].color.idx = 1
              /\ Counter(ax) = 1

\* ------------------------------------------------------------------------
\* C19: the shared-x anchor is None until the first newaxis call, which sets
\* it to the panel it creates (itself made with no shared axis); no later
\* step changes it, and every later panel is made sharing the x axis of that
\* first panel
\* ------------------------------------------------------------------------
AnchorRule ==
    IF Panels = <<>> THEN pinf.sharex = None
    ELSE /\ pinf.sharex = Panels[1]
         /\ fig.axes[Panels[1]].sharex = None
         /\ \A i \in 2..Len(Panels) : fig.axes[Panels[i]].sharex = Panels[1]

C19_AnchorSetOnce ==
    [][/\ pinf.sharex # None => pinf'.sharex = pinf.sharex
       /\ AnchorRule']_vars

\* three panels exist, the second and the third share the x axis of the first
C19_Witness ==
    /\ Len(Panels) >= 3
    /\ pinf.sharex = Panels[1]
    /\ fig.axes[Panels[3]].sharex = Panels[1]
    /\ pc = "done"

\* ------------------------------------------------------------------------
\* C20: every value tag is drawn 3 above the z-order recorded for its axis
\* when it is drawn, which is the z-order of the artifact drawn last on that
\* axis; whenever drawtag reads the z-order of an axis, on a price axis or
\* on the axis of an indicator or observer, the axis has one (no KeyError)
\* ------------------------------------------------------------------------
\* the artists drawn on ax among the first n
Before(ax, n) == {i \in 1..n : fig.artists[i].ax = ax}

Newest(S) == CHOOSE i \in S : \A j \in S : j <= i

C20_TagThreeAboveRecorded ==
    \A t \in 1..Len(fig.tags) :
        LET tag == fig.tags[t]
        IN  /\ ~tag.keyerror
            /\ tag.plus = 3
            /\ Before(tag.ax, tag.after) # {}
            /\ tag.z = fig.artists[Newest(Before(tag.ax, tag.after))].z

\* tags of the price, of a first and of a later line of an overlay on the
\* price axis that shares its rows with the volume
C20_Witness ==
    /\ pc = "done"
    /\ \E s, t, u \in 1..Len(fig.tags) :
          /\ s < t /\ t < u
          /\ fig.tags[s].ax = fig.tags[t].ax /\ fig.tags[t].ax = fig.tags[u].ax
          /\ fig.axes[fig.tags[s].ax].kind = "twin"
          /\ fig.tags[s].edge.explicit
          /\ fig.tags[t].z # fig.tags[s].z
          /\ fig.tags[u].z # fig.tags[t].z

\* ------------------------------------------------------------------------
\* C21: every color index handed to the palette for a line drawn without a
\* pinned color is at least 0: the value -1 a counter has before its first
\* use is never a color index, not even when the first such line of a panel
\* asks for _samecolor
\* ------------------------------------------------------------------------
C21_ColorIndexNotNegative ==
    \A i \in 1..Len(fig.artists) :
        (fig.artists[i].by = "plotind" /\ ~fig.artists[i].color.explicit)
            => fig.artists[i].color.idx >= 0
====
